---- MODULE Spec2Model ----
(***************************************************************************)
(* Model of the email-thread classifier: classify_thread of                *)
(* classify_cli.py (normalize_thread, sort_messages, compute_thread_id)    *)
(* and classify_labels of rules.py.                                        *)
(*                                                                         *)
(* JSON values are tagged records: null, strings, arrays and objects.  A   *)
(* string is the sequence of its symbols: a text (subject, body) is the    *)
(* sequence of its words, the space between two words being implicit, and  *)
(* a timestamp is the sequence of its characters.  An object is a function *)
(* from its keys to JSON values, so that an absent key is a key outside    *)
(* its DOMAIN.                                                             *)
(***************************************************************************)
EXTENDS Integers, Sequences, FiniteSets, TLC

VARIABLES
    pc,               \* position inside classify_thread
    data0,            \* the argument as the caller passed it (history)
    data,             \* the caller's object, as it is now
    subject,          \* classify_thread: subject
    messages,         \* classify_thread: messages
    messages_sorted,  \* classify_thread: messages_sorted
    thread_id,        \* classify_thread: thread_id
    label,            \* classify_thread: label
    result            \* what the call returned, or the exception it raised

vars == <<pc, data0, data, subject, messages, messages_sorted,
          thread_id, label, result>>

-----------------------------------------------------------------------------
(* JSON / Python values                                                    *)

Null == [k |-> "null"]
Str(s) == [k |-> "str", v |-> s]
Arr(a) == [k |-> "arr", v |-> a]
Obj(f) == [k |-> "obj", v |-> f]

EmptyStr == Str(<<>>)
EmptyArr == Arr(<<>>)
EmptyObj == Obj(<<>>)

\* A local that has not been assigned yet.
Unset == [k |-> "unset"]

\* Python truth value: None, "", [] and {} are false.
Truthy(x) ==
    CASE x.k = "null" -> FALSE
      [] x.k = "str"  -> Len(x.v) > 0
      [] x.k = "arr"  -> Len(x.v) > 0
      [] x.k = "obj"  -> DOMAIN x.v # {}

\* x or d
PyOr(x, d) == IF Truthy(x) THEN x ELSE d

\* o.get(key, d)
Get(o, key, d) == IF key \in DOMAIN o.v THEN o.v[key] ELSE d

\* o.setdefault(key, d), as the object it leaves behind
SetDefault(o, key, d) ==
    IF key \in DOMAIN o.v
    THEN o
    ELSE Obj([x \in DOMAIN o.v \cup {key} |-> IF x = key THEN d ELSE o.v[x]])

\* o with o[key] = val
Put(o, key, val) ==
    Obj([x \in DOMAIN o.v \cup {key} |-> IF x = key THEN val ELSE o.v[x]])

-----------------------------------------------------------------------------
(* classify_cli.py                                                         *)

\* classify_thread, line 34: (data or {}).get("thread", {}) or {}
ThreadOf(d) == PyOr(Get(PyOr(d, EmptyObj), "thread", EmptyObj), EmptyObj)

\* normalize_thread, line 11
SubjectOf(t) == PyOr(Get(PyOr(t, EmptyObj), "subject", EmptyStr), EmptyStr)

\* normalize_thread, line 12
MessagesOf(t) == PyOr(Get(PyOr(t, EmptyObj), "messages", EmptyArr), EmptyArr)

\* normalize_thread, lines 14-17: the four setdefault calls on one message
FillDefaults(msg) ==
    SetDefault(SetDefault(SetDefault(SetDefault(msg,
        "timestamp", EmptyStr), "from", EmptyStr), "to", EmptyArr), "body", EmptyStr)

\* normalize_thread, lines 13-17: the loop, as the list it leaves behind.
\* The list and its message objects are the caller's own.
NormalizedMessages(ms) == Arr([i \in 1..Len(ms.v) |-> FillDefaults(ms.v[i])])

\* The caller's object after normalize_thread ran on its thread: the
\* messages list is mutated in place when the thread holds a non-empty one.
DataAfterNormalize(d) ==
    LET t  == ThreadOf(d)
        ms == MessagesOf(t)
    IN  IF Truthy(ms)
        THEN Put(d, "thread", Put(t, "messages", NormalizedMessages(ms)))
        ELSE d

\* The character a number below ten is written with.
Digit(i) == CASE i = 1 -> "1" [] i = 2 -> "2" [] i = 3 -> "3" [] i = 4 -> "4"
              [] i = 5 -> "5" [] i = 6 -> "6" [] i = 7 -> "7" [] i = 8 -> "8"
              [] i = 9 -> "9"

\* Code point order of the characters timestamps are written with.
Code(c) ==
    CASE c = "0" -> 48 [] c = "1" -> 49 [] c = "2" -> 50 [] c = "3" -> 51
      [] c = "4" -> 52 [] c = "5" -> 53 [] c = "6" -> 54 [] c = "7" -> 55
      [] c = "8" -> 56 [] c = "9" -> 57

\* Python's str <= str: lexicographic, a proper prefix first.
RECURSIVE StrLeq(_, _)
StrLeq(a, b) ==
    IF Len(a) = 0 THEN TRUE
    ELSE IF Len(b) = 0 THEN FALSE
    ELSE IF Code(Head(a)) < Code(Head(b)) THEN TRUE
    ELSE IF Code(Head(a)) > Code(Head(b)) THEN FALSE
    ELSE StrLeq(Tail(a), Tail(b))

\* sort_messages, line 23: the key  m.get("timestamp", "") or ""
SortKey(m) == PyOr(Get(m, "timestamp", EmptyStr), EmptyStr).v

\* A sort that is not stable: m goes before the elements with an equal key.
InsertBeforeEqual(s, m) ==
    LET p == Cardinality({i \in 1..Len(s) :
                 StrLeq(SortKey(s[i]), SortKey(m)) /\ SortKey(s[i]) # SortKey(m)})
    IN  SubSeq(s, 1, p) \o <<m>> \o SubSeq(s, p + 1, Len(s))

\* Where a stable sort puts m in the sorted list s: after every element
\* whose key is not greater.
InsertStable(s, m) ==
    LET p == Cardinality({i \in 1..Len(s) : StrLeq(SortKey(s[i]), SortKey(m))})
    IN  SubSeq(s, 1, p) \o <<m>> \o SubSeq(s, p + 1, Len(s))

RECURSIVE SortedPrefix(_, _)
SortedPrefix(ms, n) ==
    IF n = 0 THEN <<>> ELSE InsertStable(SortedPrefix(ms, n - 1), ms[n])

\* sort_messages: sorted(messages, key=...), a new list, stable
sort_messages(ms) == Arr(SortedPrefix(ms.v, Len(ms.v)))

\* Python's a + b on strings: a TypeError unless both are strings.
TypeError == [k |-> "exc", v |-> <<"TypeError">>]
Concat(a, b) ==
    IF a.k = "str" /\ b.k = "str" THEN Str(a.v \o b.v) ELSE TypeError

\* hashlib.sha1(basis).hexdigest(): a digest names its input
Sha1Hex(basis) == [k |-> "sha1", v |-> basis]

\* An identifier that also digests the number of messages.
compute_thread_id_counted(subj, sorted) ==
    LET first_ts == IF Truthy(sorted) THEN sorted.v[1].v["timestamp"] ELSE EmptyStr
        last_ts  == IF Truthy(sorted) THEN sorted.v[Len(sorted.v)].v["timestamp"]
                    ELSE EmptyStr
        basis    == Concat(Concat(subj, first_ts), last_ts)
    IN  IF basis.k = "exc" THEN TypeError
        ELSE Sha1Hex(basis.v \o <<Digit(Len(sorted.v) + 1)>>)

\* compute_thread_id, lines 27-30
compute_thread_id(subj, sorted) ==
    LET first_ts == IF Truthy(sorted) THEN sorted.v[1].v["timestamp"] ELSE EmptyStr
        last_ts  == IF Truthy(sorted) THEN sorted.v[Len(sorted.v)].v["timestamp"]
                    ELSE EmptyStr
        basis    == Concat(Concat(subj, first_ts), last_ts)
    IN  IF basis.k = "exc" THEN TypeError ELSE Sha1Hex(basis.v)

-----------------------------------------------------------------------------
(* rules.py: the precompiled patterns                                      *)
(*                                                                         *)
(* A pattern is the set of its alternatives, each the sequence of words it *)
(* spells (\s* between two words read as the space that separates them).   *)
(* Every alternative is written in lower case: the patterns are compiled   *)
(* with re.IGNORECASE.  Vietnamese words are written without their         *)
(* diacritics: "lich" is the word the source spells with a dot below.      *)

\* str.lower() on one word
LowerWord(w) ==
    CASE w = "Confirmed" -> "confirmed"
      [] w = "Resolved"  -> "resolved"
      [] w = "Sorry"     -> "sorry"
      [] w = "Thanks"    -> "thanks"
      [] w = "Mon"       -> "mon"
      [] w = "Move"      -> "move"
      [] w = "Ping"      -> "ping"
      [] w = "File"      -> "file"
      [] OTHER           -> w

\* _lower, line 90
_lower(s) == IF s.k = "str" THEN Str([i \in 1..Len(s.v) |-> LowerWord(s.v[i])]) ELSE EmptyStr

\* The meeting words of RE_TIME_PROPOSE.  That alternative has no leading \b:
\* a word that ends in one of them ("reschedule") matches as well.
MeetWords == {"meet", "meeting", "schedule", "call", "zoom", "teams", "hangout", "hop"}

\* lines 19-25
RE_TIME_PROPOSE ==
    {<<w>> : w \in MeetWords \cup {"reschedule", "re-schedule"}}
    \cup {<<"cuoc", "hop">>, <<"dat", "lich">>}
    \cup {<<w>> : w \in {"mon", "tue", "wed", "thu", "fri", "sat", "sun"}}
    \cup {<<"thu", d>> : d \in {"2", "3", "4", "5", "6", "7"}}
    \cup {<<"th", d>> : d \in {"2", "3", "4", "5", "6", "7"}}
    \cup {<<"10:00">>, <<"9h30">>, <<"14.15">>}

\* lines 26-29
RE_TIME_CONFIRM ==
    {<<"confirm">>, <<"confirmed">>, <<"see", "you">>, <<"approved">>, <<"ok">>,
     <<"okay">>, <<"sounds", "good">>, <<"da", "xac", "nhan">>, <<"xac", "nhan">>,
     <<"dong", "y">>, <<"hen", "gap">>}

\* lines 30-33
RE_TIME_RESCHED ==
    {<<"reschedule">>, <<"re-schedule">>, <<"resched">>, <<"move">>, <<"postpone">>,
     <<"delay">>, <<"push">>, <<"doi", "lich">>, <<"hoan">>, <<"lui">>, <<"chuyen">>}

\* lines 36-39
RE_ATTACH_ATTACHED ==
    {<<"attach">>, <<"attached">>, <<"attachment">>, <<"see", "attachment">>, <<"pfa">>,
     <<"enclosed">>, <<"dinh", "kem">>, <<"tep", "dinh", "kem">>}

\* lines 40-46
RE_ATTACH_EXPECT ==
    {<<verb>> \o obj \o the \o <<noun>> :
        verb \in {"send", "resend", "provide", "share", "forward"},
        obj  \in {<<>>, <<"me">>, <<"us">>, <<"it">>},
        the  \in {<<>>, <<"the">>},
        noun \in {"file", "doc", "docs", "document", "documents", "attachment", "link"}}
    \cup {pre \o verb \o noun :
        pre  \in {<<"vui", "long">>, <<"xin">>},
        verb \in {<<"gui">>, <<"tra", "loi">>, <<"chia", "se">>},
        noun \in {<<"file">>, <<"tai", "lieu">>, <<"dinh", "kem">>}}
    \cup {<<"se", "gui">>, <<"gui", "sau">>, <<"cho", "file">>}

\* lines 49-53
RE_URGENT ==
    {<<"urgent">>, <<"asap">>, <<"eod">>, <<"by", "eod">>, <<"by", "tomorrow">>,
     <<"today">>, <<"khan">>, <<"gap">>, <<"ngay">>, <<"trong", "ngay">>,
     <<"cuoi", "ngay">>, <<"som", "nhat">>}

\* lines 54-57
RE_LOW ==
    {<<"no", "rush">>, <<"whenever">>, <<"when", "free">>, <<"luc", "ranh">>,
     <<"khong", "voi">>}

\* lines 60-63
RE_TONE_POS ==
    {<<"thanks">>, <<"thank", "you">>, <<"appreciate">>, <<"much", "appreciated">>,
     <<"cheers">>, <<"cam", "on">>, <<"tran", "trong">>, <<"tuyet", "voi">>,
     <<"rat", "tot">>}

\* lines 64-69
RE_TONE_FRUS ==
    {<<"sorry">>, <<"apology">>, <<"apologise">>, <<"apologize">>, <<"frustrated">>,
     <<"frustrating">>, <<"not", "happy">>, <<"angry">>, <<"delay">>, <<"delayed">>,
     <<"blocked">>, <<"issue">>, <<"problem">>, <<"xin", "loi">>,
     <<"khong", "hai", "long">>, <<"buc">>, <<"cham">>, <<"truc", "trac">>,
     <<"van", "de">>}

\* line 72
RE_FOLLOWUP ==
    {<<"follow-up">>, <<"followup">>, <<"gentle", "reminder">>, <<"ping">>, <<"nhac">>}

\* lines 73-76
RE_RESOLVED ==
    {<<"resolved">>, <<"fixed">>, <<"done">>, <<"completed">>, <<"closed">>, <<"xong">>,
     <<"hoan", "tat">>, <<"da", "xu", "ly">>}

\* lines 79-80
RE_REVIEW ==
    {<<"review">>, <<"approve">>, <<"approval">>, <<"duyet">>, <<"kiem", "tra">>,
     <<"xac", "nhan">>}

\* line 81
RE_EDIT == {<<"edit">>, <<"revise">>, <<"revision">>, <<"chinh", "sua">>, <<"sua">>}

\* line 82
RE_PROVIDE_DOCS ==
    {<<"doc">>, <<"docs">>, <<"document">>, <<"documents">>, <<"file">>, <<"tai", "lieu">>}

\* line 83
RE_MEET ==
    {<<"meet">>, <<"meeting">>, <<"schedule">>, <<"re-schedule">>, <<"call">>, <<"hop">>,
     <<"lich">>, <<"zoom">>}

\* pattern.search(text): some alternative occurs in the text, whatever the
\* case of the text's letters
Search(re, text) ==
    LET t == [i \in 1..Len(text) |-> LowerWord(text[i])]
    IN  \E i \in 1..Len(t) : \E j \in i..Len(t) : SubSeq(t, i, j) \in re

\* " ".join(parts): the words of the parts, in order
RECURSIVE Join(_)
Join(parts) == IF Len(parts) = 0 THEN <<>> ELSE Head(parts) \o Join(Tail(parts))

-----------------------------------------------------------------------------
(* rules.py: classify_labels                                               *)

\* line 108: the tail window, k=3
TailWindow == 3

\* seq[:k], the other end of the list
FirstK(seq, k) == IF Len(seq) <= k THEN seq ELSE SubSeq(seq, 1, k)

\* seq[-k:]
LastK(seq, k) == IF Len(seq) <= k THEN seq ELSE SubSeq(seq, Len(seq) - k + 1, Len(seq))

\* line 106: the lowercased bodies of the messages whose body is truthy, in
\* the order of the messages
RECURSIVE Bodies(_)
Bodies(ms) ==
    IF Len(ms) = 0 THEN <<>>
    ELSE (IF Truthy(Get(Head(ms), "body", Null))
          THEN <<_lower(Get(Head(ms), "body", EmptyStr)).v>>
          ELSE <<>>) \o Bodies(Tail(ms))

\* line 94: the same over the messages that are truthy themselves
RECURSIVE TailBodies(_)
TailBodies(ms) ==
    IF Len(ms) = 0 THEN <<>>
    ELSE (IF Truthy(Head(ms)) /\ Truthy(Get(Head(ms), "body", Null))
          THEN <<_lower(Get(Head(ms), "body", EmptyStr)).v>>
          ELSE <<>>) \o TailBodies(Tail(ms))

\* _last_texts, lines 92-95
_last_texts(ms, k) == LastK(TailBodies(ms), k)

\* line 107
AllText(subj, ms) == Join(Bodies(ms) \o <<_lower(subj).v>>)

\* line 109
Last1(last) == IF Len(last) > 0 THEN last[Len(last)] ELSE <<>>

\* A cascade that looks for the confirmation in the whole thread.
SchedulingConfirmAnywhere(last_any, all_text) ==
    IF Search(RE_TIME_CONFIRM, all_text) THEN "CONFIRMED_TIME"
    ELSE IF Search(RE_TIME_RESCHED, last_any) THEN "RESCHEDULE"
    ELSE IF Search(RE_TIME_PROPOSE, all_text) THEN "PROPOSED_TIME"
    ELSE "NO_MEETING"

\* lines 113-120
Scheduling(last_any, all_text) ==
    IF Search(RE_TIME_CONFIRM, last_any) THEN "CONFIRMED_TIME"
    ELSE IF Search(RE_TIME_RESCHED, last_any) THEN "RESCHEDULE"
    ELSE IF Search(RE_TIME_PROPOSE, all_text) THEN "PROPOSED_TIME"
    ELSE "NO_MEETING"

\* A cascade whose second rule forgets the already-attached pattern.
RequestTypeNoAttachedTest(all_text, scheduling) ==
    IF Search(RE_MEET, all_text)
       \/ scheduling \in {"PROPOSED_TIME", "CONFIRMED_TIME", "RESCHEDULE"}
    THEN "SCHEDULE/MEET"
    ELSE IF Search(RE_ATTACH_EXPECT, all_text) THEN "PROVIDE_DOCS"
    ELSE IF Search(RE_REVIEW, all_text) THEN "REVIEW/APPROVE"
    ELSE IF Search(RE_EDIT, all_text) THEN "EDIT/REVISE"
    ELSE IF Search(RE_PROVIDE_DOCS, all_text) THEN "PROVIDE_DOCS"
    ELSE "INFO_ONLY"

\* lines 123-134
RequestType(all_text, scheduling) ==
    IF Search(RE_MEET, all_text)
       \/ scheduling \in {"PROPOSED_TIME", "CONFIRMED_TIME", "RESCHEDULE"}
    THEN "SCHEDULE/MEET"
    ELSE IF Search(RE_ATTACH_EXPECT, all_text) /\ ~Search(RE_ATTACH_ATTACHED, all_text)
    THEN "PROVIDE_DOCS"
    ELSE IF Search(RE_REVIEW, all_text) THEN "REVIEW/APPROVE"
    ELSE IF Search(RE_EDIT, all_text) THEN "EDIT/REVISE"
    ELSE IF Search(RE_PROVIDE_DOCS, all_text) THEN "PROVIDE_DOCS"
    ELSE "INFO_ONLY"

\* An elif in place of the second if: one label at most.
AttachmentsElif(all_text) ==
    IF Search(RE_ATTACH_ATTACHED, all_text) THEN <<"ATTACHED">>
    ELSE IF Search(RE_ATTACH_EXPECT, all_text) THEN <<"EXPECTING_ATTACHMENT">>
    ELSE <<"NONE_MENTIONED">>

\* lines 137-143: the list, in the order of the appends
Attachments(all_text) ==
    LET found == (IF Search(RE_ATTACH_ATTACHED, all_text) THEN <<"ATTACHED">> ELSE <<>>)
                 \o (IF Search(RE_ATTACH_EXPECT, all_text)
                     THEN <<"EXPECTING_ATTACHMENT">> ELSE <<>>)
    IN  IF Len(found) = 0 THEN <<"NONE_MENTIONED">> ELSE found

\* lines 146-151
Urgency(all_text) ==
    IF Search(RE_URGENT, all_text) THEN "URGENT-24H"
    ELSE IF Search(RE_LOW, all_text) THEN "LOW-120H"
    ELSE "STD-48H"

\* A tone rule without the exclusions: frustration wins.
ToneFrustrationFirst(last1, last_any) ==
    IF Search(RE_TONE_FRUS, last1) THEN "FRUSTRATED"
    ELSE IF Search(RE_TONE_POS, last1) THEN "POSITIVE"
    ELSE IF Search(RE_TONE_FRUS, last_any) THEN "FRUSTRATED"
    ELSE IF Search(RE_TONE_POS, last_any) THEN "POSITIVE"
    ELSE "NEUTRAL"

\* lines 154-165
Tone(last1, last_any) ==
    IF Search(RE_TONE_FRUS, last1) /\ ~Search(RE_TONE_POS, last1) THEN "FRUSTRATED"
    ELSE IF Search(RE_TONE_POS, last1) /\ ~Search(RE_TONE_FRUS, last1) THEN "POSITIVE"
    ELSE IF Search(RE_TONE_POS, last_any) /\ ~Search(RE_TONE_FRUS, last_any)
    THEN "POSITIVE"
    ELSE IF Search(RE_TONE_FRUS, last_any) /\ ~Search(RE_TONE_POS, last_any)
    THEN "FRUSTRATED"
    ELSE "NEUTRAL"

\* A state rule that looks at the message count before the resolution.
ThreadStateCountFirst(last_any, all_text, n) ==
    IF Search(RE_FOLLOWUP, all_text) \/ n > 1 THEN "FOLLOW-UP"
    ELSE IF Search(RE_RESOLVED, last_any) THEN "RESOLVED"
    ELSE "NEW"

\* lines 168-174
ThreadState(last_any, all_text, n) ==
    IF Search(RE_RESOLVED, last_any) THEN "RESOLVED"
    ELSE IF Search(RE_FOLLOWUP, all_text) \/ n > 1 THEN "FOLLOW-UP"
    ELSE "NEW"

\* classify_labels, lines 101-183
classify_labels(subj, ms) ==
    LET all_text   == AllText(subj, ms.v)
        last       == _last_texts(ms.v, TailWindow)
        last1      == Last1(last)
        last_any   == Join(last)
        scheduling == Scheduling(last_any, all_text)
    IN  [request_type |-> RequestType(all_text, scheduling),
         urgency      |-> Urgency(all_text),
         thread_state |-> ThreadState(last_any, all_text, Len(ms.v)),
         scheduling   |-> scheduling,
         attachments  |-> Attachments(all_text),
         tone         |-> Tone(last1, last_any)]

-----------------------------------------------------------------------------
(* classify_cli.py: classify_thread as a function of its argument          *)

\* classify_thread, lines 33-39: the record returned, or the exception raised
classify_thread(d) ==
    LET t      == ThreadOf(d)
        subj   == SubjectOf(t)
        ms     == IF Truthy(MessagesOf(t)) THEN NormalizedMessages(MessagesOf(t))
                  ELSE MessagesOf(t)
        sorted == sort_messages(ms)
        id     == compute_thread_id(subj, sorted)
    IN  IF id.k = "exc" THEN id
        ELSE [thread_id |-> id, label |-> classify_labels(subj, sorted)]

\* The thread_id of classify_thread(d), or the exception raised
ThreadIdOf(d) ==
    LET t  == ThreadOf(d)
        ms == IF Truthy(MessagesOf(t)) THEN NormalizedMessages(MessagesOf(t))
              ELSE MessagesOf(t)
    IN  compute_thread_id(SubjectOf(t), sort_messages(ms))

-----------------------------------------------------------------------------
(* The inputs the model runs classify_thread on                            *)

\* Bounds on the number of messages of a thread, per family of inputs.
MaxShapeMsgs == 3
MaxMsgs == 4
MaxReqMsgs == 2

\* A field left out of an object under construction.
Absent == [k |-> "absent"]
Prune(f) == Obj([x \in {y \in DOMAIN f : f[y] # Absent} |-> f[x]])

SeqsUpTo(S, n) == UNION {[1..m -> S] : m \in 0..n}

\* Shapes: every field absent, null or well-typed.
ShapeTimestamps == {Absent, Null, Str(<<"1", "2">>), Str(<<"2">>)}
ShapeRest ==
    {[from |-> Absent, to |-> Absent, body |-> Absent],
     [from |-> Null, to |-> Null, body |-> Null],
     [from |-> Str(<<"ann">>), to |-> Arr(<<Str(<<"bob">>)>>), body |-> Str(<<"Confirmed">>)]}
ShapeMessages ==
    {Prune([timestamp |-> ts, from |-> r.from, to |-> r.to, body |-> r.body]) :
        ts \in ShapeTimestamps, r \in ShapeRest}
ShapeFixed ==
    {Null, EmptyObj, Obj([thread |-> Null]), Obj([thread |-> EmptyObj]),
     Obj([thread |-> Obj([subject |-> Null, messages |-> Null])])}
ShapeInput(s, ms) == Obj([thread |-> Prune([subject |-> s, messages |-> Arr(ms)])])

\* Texts: well-formed threads whose bodies and subject are drawn from a
\* vocabulary, the messages given in ascending or in descending time order.
TextMessage(i, n, order, body) ==
    Obj([timestamp |-> Str(<<Digit(IF order = "asc" THEN i ELSE n + 1 - i)>>),
         from |-> Str(<<"ann">>), to |-> Arr(<<Str(<<"bob">>)>>), body |-> Str(body)])
TextInput(s, bs, order) ==
    Obj([thread |-> Obj([subject |-> Str(s),
                         messages |-> Arr([i \in 1..Len(bs) |->
                                             TextMessage(i, Len(bs), order, bs[i])])])])
Orders == {"asc", "desc"}

SchedSubjects == {<<>>, <<"Confirmed", "Move">>, <<"meet">>}
SchedBodies == {<<>>, <<"you">>, <<"see">>, <<"Confirmed">>, <<"move">>}
ToneSubjects == {<<>>, <<"Sorry">>}
ToneBodies == {<<>>, <<"you">>, <<"Thanks">>, <<"sorry">>, <<"sorry", "thanks">>}
StateSubjects == {<<>>, <<"Resolved">>, <<"Ping">>}
StateBodies == {<<>>, <<"you">>, <<"Resolved">>, <<"ping">>}
ReqSubjects == {<<>>, <<"urgent", "review">>}
ReqBodies ==
    {<<>>, <<"send", "the", "File">>, <<"attached">>, <<"review">>, <<"edit">>,
     <<"file">>, <<"lich">>, <<"ok">>, <<"mon">>}

\* The argument of the call is one of these.
IsInput(d) ==
    \/ d \in ShapeFixed
    \/ \E ms \in SeqsUpTo(ShapeMessages, MaxShapeMsgs) : d = ShapeInput(Absent, ms)
    \/ \E ms \in SeqsUpTo(ShapeMessages, 1) : d = ShapeInput(Str(<<"Sync">>), ms)
    \/ \E s \in SchedSubjects, bs \in SeqsUpTo(SchedBodies, MaxMsgs), o \in Orders :
          d = TextInput(s, bs, o)
    \/ \E s \in ToneSubjects, bs \in SeqsUpTo(ToneBodies, MaxMsgs), o \in Orders :
          d = TextInput(s, bs, o)
    \/ \E s \in StateSubjects, bs \in SeqsUpTo(StateBodies, MaxMsgs), o \in Orders :
          d = TextInput(s, bs, o)
    \/ \E s \in ReqSubjects, bs \in SeqsUpTo(ReqBodies, MaxReqMsgs), o \in Orders :
          d = TextInput(s, bs, o)

-----------------------------------------------------------------------------
(* classify_thread as a state machine                                      *)

Init ==
    /\ IsInput(data0)
    /\ data = data0
    /\ pc = "call"
    /\ subject = Unset
    /\ messages = Unset
    /\ messages_sorted = Unset
    /\ thread_id = Unset
    /\ label = Unset
    /\ result = Unset

\* lines 34-35: thread = ...; subject, messages = normalize_thread(thread)
Normalize ==
    /\ pc = "call"
    /\ LET t == ThreadOf(data)
       IN  /\ subject' = SubjectOf(t)
           /\ messages' = (IF Truthy(MessagesOf(t))
                           THEN NormalizedMessages(MessagesOf(t))
                           ELSE MessagesOf(t))
    /\ data' = DataAfterNormalize(data)
    /\ pc' = "normalized"
    /\ UNCHANGED <<data0, messages_sorted, thread_id, label, result>>

\* line 36
Sort ==
    /\ pc = "normalized"
    /\ messages_sorted' = sort_messages(messages)
    /\ pc' = "sorted"
    /\ UNCHANGED <<data0, data, subject, messages, thread_id, label, result>>

\* line 37: the call returns the digest, or the TypeError leaves classify_thread
ComputeThreadId ==
    /\ pc = "sorted"
    /\ LET id == compute_thread_id(subject, messages_sorted)
       IN  IF id.k = "exc"
           THEN /\ result' = id
                /\ pc' = "raised"
                /\ UNCHANGED thread_id
           ELSE /\ thread_id' = id
                /\ pc' = "identified"
                /\ UNCHANGED result
    /\ UNCHANGED <<data0, data, subject, messages, messages_sorted, label>>

\* lines 38-39: label = classify_labels(...); return {...}
ClassifyLabels ==
    /\ pc = "identified"
    /\ label' = classify_labels(subject, messages_sorted)
    /\ result' = [thread_id |-> thread_id, label |-> label']
    /\ pc' = "returned"
    /\ UNCHANGED <<data0, data, subject, messages, messages_sorted, thread_id>>

Next == Normalize \/ Sort \/ ComputeThreadId \/ ClassifyLabels

Spec == Init /\ [][Next]_vars

-----------------------------------------------------------------------------
(* The input as the specification reads it                                 *)

Started == pc # "call"
Sorted == pc \in {"sorted", "identified", "raised", "returned"}
Returned == pc = "returned"
Raised == pc = "raised"

\* A field of an object that may be absent or null, read as its default.
FieldOr(o, key, d) ==
    IF o.k = "obj" /\ key \in DOMAIN o.v /\ o.v[key].k # "null" THEN o.v[key] ELSE d

\* The argument with every absent or null field replaced by its default.
DefaultedMessage(m) ==
    Obj([timestamp |-> FieldOr(m, "timestamp", EmptyStr),
         from      |-> FieldOr(m, "from", EmptyStr),
         to        |-> FieldOr(m, "to", EmptyArr),
         body      |-> FieldOr(m, "body", EmptyStr)])
Defaulted(d) ==
    LET t  == FieldOr(d, "thread", EmptyObj)
        ms == FieldOr(t, "messages", EmptyArr)
    IN  Obj([thread |->
              Obj([subject  |-> FieldOr(t, "subject", EmptyStr),
                   messages |-> Arr([i \in 1..Len(ms.v) |-> DefaultedMessage(ms.v[i])])])])

\* The messages of the argument, in input order.
InputMessages(d) == FieldOr(FieldOr(d, "thread", EmptyObj), "messages", EmptyArr).v

\* Lexicographic order on strings, by the first place where they differ.
LexLess(a, b) ==
    \E n \in 0..Len(a) :
        /\ n <= Len(b)
        /\ \A i \in 1..n : a[i] = b[i]
        /\ \/ n = Len(a) /\ n < Len(b)
           \/ n < Len(a) /\ n < Len(b) /\ Code(a[n + 1]) < Code(b[n + 1])

\* The timestamp a message is ordered by: "" when absent or null.
OrderTs(m) == FieldOr(m, "timestamp", EmptyStr).v

\* The timestamps the messages ms are ordered by.
OrderKeys(ms) == [i \in 1..Len(ms) |-> OrderTs(ms[i])]

\* The place of the i-th of the keys ts in a stable ascending order: after
\* every smaller key, and after the equal keys that come before it.
Rank(ts, i) ==
    1 + Cardinality({j \in 1..Len(ts) : LexLess(ts[j], ts[i])})
      + Cardinality({j \in 1..(i - 1) : ts[j] = ts[i]})

-----------------------------------------------------------------------------
(* C1 *)

\* C1: classify_thread is total on absent-or-null input: whatever fields of
\* the argument are absent, null or well-typed, the call raises no exception
\* and returns a record with a thread_id and the six labels, the same record
\* it returns for the argument with every absent or null field replaced by
\* its default.
C1_TotalOnAbsentOrNull ==
    /\ ~Raised
    /\ Returned =>
         /\ DOMAIN result = {"thread_id", "label"}
         /\ DOMAIN result.label = {"request_type", "urgency", "thread_state",
                                   "scheduling", "attachments", "tone"}
         /\ result = classify_thread(Defaulted(data0))

-----------------------------------------------------------------------------
(* C3 *)

\* C3: classify_thread leaves its input unchanged: at every point of the
\* call the caller's data is what it was when the call was made.
C3_InputUnchanged == data = data0

-----------------------------------------------------------------------------
(* C9 *)

\* C9: the message sequence passed to the identifier and the classifier is
\* a permutation of the (default-filled) input messages, in ascending
\* lexicographic timestamp order with an empty, absent or null timestamp
\* first, and messages with equal timestamps keep their input order.
C9_StableSort ==
    pc = "sorted" =>
        \A ts \in {OrderKeys(InputMessages(data0))} :
        \A r \in {[i \in 1..Len(ts) |-> Rank(ts, i)]} :
        \A out \in {messages_sorted.v} :
        \A n \in {Len(ts)} :
            /\ Len(out) = n
            /\ \A i \in 1..n : r[i] \in 1..n
            /\ \A i, j \in 1..n : i # j => r[i] # r[j]
            /\ \A i \in 1..n : out[r[i]] = messages.v[i]
            /\ \A a \in 1..(n - 1) : ~LexLess(OrderTs(out[a + 1]), OrderTs(out[a]))
            /\ \A i, j \in 1..n : i < j /\ ts[i] = ts[j] => r[i] < r[j]

\* Witness: three messages given out of order, two of them different
\* messages with the same timestamp, have been sorted.
C9_Witness ==
    /\ pc = "sorted"
    /\ LET in == InputMessages(data0)
       IN  /\ Len(in) = 3
           /\ LexLess(OrderTs(in[3]), OrderTs(in[1]))
           /\ OrderTs(in[1]) = OrderTs(in[2])
           /\ in[1] # in[2]
           /\ Len(OrderTs(in[1])) = 1
           /\ Len(OrderTs(in[3])) = 2

-----------------------------------------------------------------------------
(* C5 *)

\* The timestamp a message holds once the defaults are filled in: "" when
\* the key was absent.
HeldTs(m) == IF "timestamp" \in DOMAIN m.v THEN m.v["timestamp"] ELSE EmptyStr

\* (subject, timestamp of the first sorted message, timestamp of the last
\* sorted message) of an argument; two empty timestamps without messages.
KeyOf(d) ==
    LET ms == InputMessages(d)
        ts == OrderKeys(ms)
        n  == Len(ms)
    IN  <<FieldOr(FieldOr(d, "thread", EmptyObj), "subject", EmptyStr),
          IF n = 0 THEN EmptyStr ELSE HeldTs(ms[CHOOSE i \in 1..n : Rank(ts, i) = 1]),
          IF n = 0 THEN EmptyStr ELSE HeldTs(ms[CHOOSE i \in 1..n : Rank(ts, i) = n])>>

\* What classify_thread makes of every argument of the shape family: its
\* key and its thread_id (or the exception).
IdTable ==
    {<<KeyOf(d), ThreadIdOf(d)>> :
        d \in ShapeFixed
              \cup {ShapeInput(Absent, ms) : ms \in SeqsUpTo(ShapeMessages, MaxShapeMsgs)}
              \cup {ShapeInput(Str(<<"Sync">>), ms) : ms \in SeqsUpTo(ShapeMessages, 1)}}

\* C5: thread_id depends only on (subject, timestamp of the first sorted
\* message, timestamp of the last sorted message): whatever classify_thread
\* makes of this argument's identifier, it makes of every other argument
\* with the same three values, whatever its bodies, senders, recipients,
\* message count or middle messages.
C5_ThreadIdDependsOnKeyOnly ==
    pc \in {"identified", "raised"} =>
        \A key \in {KeyOf(data0)} :
        \A id \in {IF Raised THEN result ELSE thread_id} :
        \A e \in IdTable : e[1] = key => e[2] = id

\* Witness: a thread of three messages with a body was given the identifier
\* of a two-message thread without bodies that has the same key.
C5_WitnessLong ==
    ShapeInput(Absent,
        <<Obj([timestamp |-> Str(<<"2">>), from |-> Str(<<"ann">>),
               to |-> Arr(<<Str(<<"bob">>)>>), body |-> Str(<<"Confirmed">>)]),
          Obj([timestamp |-> Str(<<"1", "2">>), from |-> Null, to |-> Null, body |-> Null]),
          Obj([timestamp |-> Str(<<"2">>)])>>)
C5_WitnessShort ==
    ShapeInput(Absent,
        <<Obj([timestamp |-> Str(<<"1", "2">>)]), Obj([timestamp |-> Str(<<"2">>)])>>)
C5_Witness ==
    /\ pc = "identified"
    /\ data0 = C5_WitnessLong
    /\ KeyOf(C5_WitnessShort) = KeyOf(data0)
    /\ thread_id = ThreadIdOf(C5_WitnessShort)

-----------------------------------------------------------------------------
(* The text views of the specification, over what classify_labels is given *)

HasBody(m) == "body" \in DOMAIN m.v /\ m.v["body"].k = "str" /\ Len(m.v["body"].v) > 0

\* The non-empty bodies of the sorted messages, oldest first.
NonEmptyBodies(ms) ==
    LET idx == {i \in 1..Len(ms) : HasBody(ms[i])}
    IN  [b \in 1..Cardinality(idx) |->
            ms[CHOOSE i \in idx : Cardinality({j \in idx : j <= i}) = b].v["body"].v]

\* The words of the bodies b[from..to], space-joined.
RECURSIVE Words(_, _, _)
Words(b, from, to) == IF from > to THEN <<>> ELSE b[from] \o Words(b, from + 1, to)

Max(a, b) == IF a >= b THEN a ELSE b

\* bodies: the non-empty bodies; first: the place of the oldest body of the
\* tail window; all, tail, last, older: the views; n: the message count.
Views ==
    LET b  == NonEmptyBodies(messages_sorted.v)
        nb == Len(b)
        f  == Max(1, nb - 2)
    IN  [bodies |-> b,
         first  |-> f,
         all    |-> Words(b, 1, nb) \o subject.v,
         tail   |-> Words(b, f, nb),
         last   |-> IF nb = 0 THEN <<>> ELSE b[nb],
         older  |-> Words(b, 1, f - 1),
         n      |-> Len(InputMessages(data0))]

Confirms(text) == Search(RE_TIME_CONFIRM, text)
Reschedules(text) == Search(RE_TIME_RESCHED, text)
Proposes(text) == Search(RE_TIME_PROPOSE, text)

\* A reschedule body inside the tail window that comes after every
\* confirmation body.
RescheduleAfterConfirmations(v) ==
    \E r \in v.first..Len(v.bodies) :
        /\ Reschedules(v.bodies[r])
        /\ \A c \in 1..Len(v.bodies) : Confirms(v.bodies[c]) => c < r

-----------------------------------------------------------------------------
(* C2 *)

\* C2, as stated: whenever a body matching the reschedule pattern comes
\* later than every body matching the confirmation pattern and is among the
\* 3 most recent non-empty bodies, scheduling is RESCHEDULE.
C2_RescheduleNotMasked ==
    Returned =>
        \A v \in {Views} :
            RescheduleAfterConfirmations(v) => result.label.scheduling = "RESCHEDULE"

\* C2, amended: the same, provided the tail (the 3 most recent non-empty
\* bodies, space-joined) does not match the confirmation pattern, that is,
\* provided every confirmation lies in bodies older than the tail window.
C2_RescheduleNotMaskedByOldConfirmation ==
    Returned =>
        \A v \in {Views} :
            RescheduleAfterConfirmations(v) /\ ~Confirms(v.tail)
                => result.label.scheduling = "RESCHEDULE"

\* Witness: a confirmation in a body older than the tail window, a
\* reschedule inside the window, and RESCHEDULE returned.
C2_Witness ==
    /\ Returned
    /\ \E v \in {Views} :
        /\ RescheduleAfterConfirmations(v)
        /\ ~Confirms(v.tail)
        /\ \E c \in 1..(v.first - 1) : Confirms(v.bodies[c])
        /\ result.label.scheduling = "RESCHEDULE"

-----------------------------------------------------------------------------
(* C4 *)

\* C4: scheduling is a strict first-match cascade over two scopes:
\* CONFIRMED_TIME if the tail matches the confirmation pattern, else
\* RESCHEDULE if the tail matches the reschedule pattern, else PROPOSED_TIME
\* if all_text matches the proposal pattern, else NO_MEETING; a confirmation
\* or reschedule match found only in bodies older than the tail window or in
\* the subject never yields CONFIRMED_TIME or RESCHEDULE.
C4_SchedulingCascade ==
    Returned =>
        \A v \in {Views} :
        \A sch \in {result.label.scheduling} :
            /\ sch = (IF Confirms(v.tail) THEN "CONFIRMED_TIME"
                      ELSE IF Reschedules(v.tail) THEN "RESCHEDULE"
                      ELSE IF Proposes(v.all) THEN "PROPOSED_TIME"
                      ELSE "NO_MEETING")
            /\ (Confirms(v.older \o subject.v) /\ ~Confirms(v.tail))
                  => sch # "CONFIRMED_TIME"
            /\ (Reschedules(v.older \o subject.v) /\ ~Reschedules(v.tail))
                  => sch # "RESCHEDULE"

\* Witness: a confirmation in a body older than the tail window, confirmation
\* and reschedule words in the subject, none in the tail, and NO_MEETING.
C4_Witness ==
    /\ Returned
    /\ \E v \in {Views} :
        /\ Len(v.bodies) > 3
        /\ Confirms(v.older)
        /\ Confirms(subject.v) /\ Reschedules(subject.v)
        /\ ~Confirms(v.tail) /\ ~Reschedules(v.tail)
        /\ result.label.scheduling = "NO_MEETING"

-----------------------------------------------------------------------------
(* C6 *)

\* C6: request type is a strict first-match cascade: SCHEDULE/MEET if
\* all_text matches the meeting pattern or scheduling is not NO_MEETING; else
\* PROVIDE_DOCS if all_text matches the expecting-attachment pattern and not
\* the already-attached pattern; else REVIEW/APPROVE, else EDIT/REVISE, else
\* PROVIDE_DOCS on the document-noun pattern, else INFO_ONLY.  So a scheduling
\* other than NO_MEETING implies SCHEDULE/MEET.
C6_RequestTypeCascade ==
    Returned =>
        \A all \in {Views.all} :
        \A sch \in {result.label.scheduling} :
            /\ result.label.request_type =
                 (IF Search(RE_MEET, all) \/ sch # "NO_MEETING" THEN "SCHEDULE/MEET"
                  ELSE IF Search(RE_ATTACH_EXPECT, all) /\ ~Search(RE_ATTACH_ATTACHED, all)
                       THEN "PROVIDE_DOCS"
                  ELSE IF Search(RE_REVIEW, all) THEN "REVIEW/APPROVE"
                  ELSE IF Search(RE_EDIT, all) THEN "EDIT/REVISE"
                  ELSE IF Search(RE_PROVIDE_DOCS, all) THEN "PROVIDE_DOCS"
                  ELSE "INFO_ONLY")
            /\ sch # "NO_MEETING" => result.label.request_type = "SCHEDULE/MEET"

\* Witness: a thread that asks for a file, has one attached and asks for a
\* review; the attachment rules the request for the file out, the review
\* wins over the document noun.
C6_Witness ==
    /\ Returned
    /\ \E all \in {Views.all} :
        /\ Search(RE_ATTACH_EXPECT, all)
        /\ Search(RE_ATTACH_ATTACHED, all)
        /\ Search(RE_REVIEW, all)
        /\ Search(RE_PROVIDE_DOCS, all)
        /\ result.label.request_type = "REVIEW/APPROVE"

-----------------------------------------------------------------------------
(* C7 *)

\* The exclusive-match rule on one view: conclusive when exactly one of the
\* two tone patterns matches.
ExclusiveTone(text) ==
    IF Search(RE_TONE_FRUS, text) /\ ~Search(RE_TONE_POS, text) THEN "FRUSTRATED"
    ELSE IF Search(RE_TONE_POS, text) /\ ~Search(RE_TONE_FRUS, text) THEN "POSITIVE"
    ELSE "INCONCLUSIVE"

\* C7: tone is what the exclusive-match rule makes of the latest non-empty
\* body when it is conclusive there, else what it makes of the tail, else
\* NEUTRAL; the subject and the bodies older than the tail play no part.
C7_ToneExclusiveMatch ==
    Returned =>
        \A v \in {Views} :
        \A l \in {ExclusiveTone(v.last)} :
        \A t \in {ExclusiveTone(v.tail)} :
            result.label.tone =
                (IF l # "INCONCLUSIVE" THEN l
                 ELSE IF t # "INCONCLUSIVE" THEN t
                 ELSE "NEUTRAL")

\* Witness: the latest body matches both patterns, an older body and the
\* subject match frustration alone, and the tone is NEUTRAL.
C7_Witness ==
    /\ Returned
    /\ \E v \in {Views} :
        /\ Search(RE_TONE_FRUS, v.last) /\ Search(RE_TONE_POS, v.last)
        /\ ExclusiveTone(v.older) = "FRUSTRATED"
        /\ ExclusiveTone(subject.v) = "FRUSTRATED"
        /\ result.label.tone = "NEUTRAL"

-----------------------------------------------------------------------------
(* C8 *)

\* C8: thread_state is RESOLVED whenever the tail matches the resolution
\* pattern, even with more than one message; else FOLLOW-UP if all_text
\* matches the follow-up pattern or the thread has more than one message,
\* empty-bodied ones included; else NEW.  NEW needs at most one message, no
\* follow-up match and no resolution match in the tail.
C8_ThreadStatePriority ==
    Returned =>
        \A v \in {Views} :
        \A st \in {result.label.thread_state} :
            /\ st = (IF Search(RE_RESOLVED, v.tail) THEN "RESOLVED"
                     ELSE IF Search(RE_FOLLOWUP, v.all) \/ v.n > 1 THEN "FOLLOW-UP"
                     ELSE "NEW")
            /\ st = "NEW" =>
                  v.n <= 1 /\ ~Search(RE_FOLLOWUP, v.all) /\ ~Search(RE_RESOLVED, v.tail)

\* Witness: several messages, one of them with an empty body, a follow-up
\* word in the thread, a resolution in the tail, and RESOLVED returned.
C8_Witness ==
    /\ Returned
    /\ \E v \in {Views} :
        /\ v.n > 1
        /\ Len(v.bodies) < v.n
        /\ Search(RE_FOLLOWUP, v.all)
        /\ Search(RE_RESOLVED, v.tail)
        /\ result.label.thread_state = "RESOLVED"

-----------------------------------------------------------------------------
(* C10 *)

Labels(list) == {list[i] : i \in 1..Len(list)}

\* C10: the attachments label is never empty: it holds ATTACHED iff all_text
\* matches the already-attached pattern, EXPECTING_ATTACHMENT iff it matches
\* the expecting-attachment pattern, and it is {NONE_MENTIONED} iff neither
\* matches, so NONE_MENTIONED never stands beside another value.
C10_AttachmentsNeverEmpty ==
    Returned =>
        \A all \in {Views.all} :
        \A att \in {Labels(result.label.attachments)} :
            /\ att # {}
            /\ att \subseteq {"ATTACHED", "EXPECTING_ATTACHMENT", "NONE_MENTIONED"}
            /\ "ATTACHED" \in att <=> Search(RE_ATTACH_ATTACHED, all)
            /\ "EXPECTING_ATTACHMENT" \in att <=> Search(RE_ATTACH_EXPECT, all)
            /\ att = {"NONE_MENTIONED"}
                  <=> ~Search(RE_ATTACH_ATTACHED, all) /\ ~Search(RE_ATTACH_EXPECT, all)
            /\ "NONE_MENTIONED" \in att => att = {"NONE_MENTIONED"}

\* Witness: a thread that both has a file attached and asks for one carries
\* the two labels together.
C10_Witness ==
    /\ Returned
    /\ Search(RE_ATTACH_ATTACHED, Views.all)
    /\ Search(RE_ATTACH_EXPECT, Views.all)
    /\ Labels(result.label.attachments) = {"ATTACHED", "EXPECTING_ATTACHMENT"}

====
